---- MODULE Spec2Model ----
(***************************************************************************)
(* punctuator.py: a line filter.  Every line of standard input is          *)
(* stripped; a blank line is echoed as a blank line, any other line is     *)
(* tokenized, cut to the tokenizer's capacity, handed to a text2text       *)
(* pipeline with a length budget, and the first candidate is printed.      *)
(*                                                                         *)
(* Strings are sequences of characters.  The tokenizer is the T5           *)
(* SentencePiece tokenizer of the model the script names: whitespace runs  *)
(* collapse, a piece is marked when it opens a word, and encode appends    *)
(* the end-of-sequence token.                                              *)
(***************************************************************************)
EXTENDS Integers, Sequences, FiniteSets

\* ---------------------------------------------------------------- bounds
MaxLines == 2
MaxInputChars == 5
MaxCapacity == 2
MaxCandidates == 2

Chars == {" ", "a"}

\* ------------------------------------------------------------- str helpers
RECURSIVE LStrip(_)
LStrip(s) == IF s # <<>> /\ Head(s) = " " THEN LStrip(Tail(s)) ELSE s

RECURSIVE RStrip(_)
RStrip(s) ==
    IF s # <<>> /\ s[Len(s)] = " " THEN RStrip(SubSeq(s, 1, Len(s) - 1)) ELSE s

\* line.strip()
Strip(s) == RStrip(LStrip(s))

\* TRUE iff position i of s opens a whitespace-separated word
WordStart(s, i) == s[i] # " " /\ (i = 1 \/ s[i - 1] = " ")

\* len(text.split())
WordCount(s) == Cardinality({i \in 1..Len(s) : WordStart(s, i)})

MaxLenNoFloor(wc) == wc * 2

\* max(word_count * 2, 5)
MaxLen(wc) == IF wc * 2 > 5 THEN wc * 2 ELSE 5

\* ---------------------------------------------------------------- tokenizer
EOS_ID == 1
WORD_PIECE == 2
CONT_PIECE == 3

RECURSIVE Pieces(_, _)
Pieces(s, i) ==
    IF i > Len(s) THEN <<>>
    ELSE IF s[i] = " " THEN Pieces(s, i + 1)
    ELSE <<IF WordStart(s, i) THEN WORD_PIECE ELSE CONT_PIECE>> \o Pieces(s, i + 1)

\* tokenizer.encode(text, truncation=False)
Encode(s) == Pieces(s, 1) \o <<EOS_ID>>

RECURSIVE Detok(_)
Detok(ids) ==
    IF ids = <<>> THEN <<>>
    ELSE IF Head(ids) = EOS_ID THEN Detok(Tail(ids))
    ELSE IF Head(ids) = WORD_PIECE THEN <<" ", "a">> \o Detok(Tail(ids))
    ELSE <<"a">> \o Detok(Tail(ids))

\* tokenizer.decode(ids, skip_special_tokens=True)
Decode(ids) == LStrip(Detok(ids))

NeedsTruncationAtCapacity(ids, cap) == Len(ids) >= cap

\* len(ids) > MAX_TOKENS
NeedsTruncation(ids, cap) == Len(ids) > cap

\* ids[:MAX_TOKENS]
Prefix(ids, cap) == SubSeq(ids, 1, IF cap < Len(ids) THEN cap ELSE Len(ids))

\* ---------------------------------------------------------------- generator
\* the k-th candidate the pipeline returns for a text
Candidate(t, k) == [generated_text |-> t \o [j \in 1..k |-> "."]]

Candidates(t, n) == [k \in 1..n |-> Candidate(t, k)]

\* -------------------------------------------------------------------- state
VARIABLES stdin, stdout_isatty, MAX_TOKENS, pc, pos, line, text, ids,
          word_count, max_len, out, stdout_buf, stdout_seen,
          failure, calls, requests

vars == <<stdin, stdout_isatty, MAX_TOKENS, pc, pos, line, text, ids,
          word_count, max_len, out, stdout_buf, stdout_seen,
          failure, calls, requests>>

Strings(n) == UNION {[1..k -> Chars] : k \in 0..n}

RECURSIVE InputsOf(_, _)
\* the streams of at most n lines holding at most c characters in all
InputsOf(n, c) ==
    IF n = 0 THEN {<<>>}
    ELSE {<<>>} \cup
         UNION {{<<l>> \o rest : rest \in InputsOf(n - 1, c - Len(l))} :
                    l \in Strings(c)}

Inputs == InputsOf(MaxLines, MaxInputChars)

Init ==
    /\ stdin \in Inputs
    /\ stdout_isatty \in BOOLEAN
    /\ MAX_TOKENS \in 1..MaxCapacity
    /\ pc = "read"
    /\ pos = 0
    /\ line = <<>>
    /\ text = <<>>
    /\ ids = <<>>
    /\ word_count = 0
    /\ max_len = 0
    /\ out = <<>>
    /\ stdout_buf = <<>>
    /\ stdout_seen = <<>>
    /\ failure = "none"
    /\ calls = <<>>
    /\ requests = <<>>

Call(op) == [ln |-> pos, op |-> op]

\* print(s, flush=f): the line enters the buffer of sys.stdout, which is
\* handed downstream on a flush or, on a terminal, at the newline
WriteLine(s, flush) ==
    IF flush \/ stdout_isatty
    THEN /\ stdout_seen' = stdout_seen \o stdout_buf \o <<s>>
         /\ stdout_buf' = <<>>
    ELSE /\ stdout_buf' = Append(stdout_buf, s)
         /\ stdout_seen' = stdout_seen

\* interpreter exit flushes sys.stdout
FlushAtExit ==
    /\ stdout_seen' = stdout_seen \o stdout_buf
    /\ stdout_buf' = <<>>

RaiseSwallowed(cause) ==
    /\ failure' = cause
    /\ pc' = "read"
    /\ FlushAtExit

\* an exception leaves the loop and ends the process
Raise(cause) ==
    /\ failure' = cause
    /\ pc' = "aborted"
    /\ FlushAtExit

NextLineNoStrip ==
    /\ pc = "read"
    /\ pos < Len(stdin)
    /\ pos' = pos + 1
    /\ line' = stdin[pos + 1]
    /\ text' = stdin[pos + 1]
    /\ pc' = "check"
    /\ calls' = Append(calls, [ln |-> pos + 1, op |-> "read"])
    /\ UNCHANGED <<stdin, stdout_isatty, MAX_TOKENS, ids, word_count, max_len,
                   out, stdout_buf, stdout_seen, failure, requests>>

NextLineLeaky ==
    /\ pc = "read"
    /\ pos < Len(stdin)
    /\ pos' = pos + 1
    /\ line' = stdin[pos + 1]
    /\ text' = text \o Strip(stdin[pos + 1])
    /\ pc' = "check"
    /\ calls' = Append(calls, [ln |-> pos + 1, op |-> "read"])
    /\ UNCHANGED <<stdin, stdout_isatty, MAX_TOKENS, ids, word_count, max_len,
                   out, stdout_buf, stdout_seen, failure, requests>>

\* for line in sys.stdin: text = line.strip()
NextLine ==
    /\ pc = "read"
    /\ pos < Len(stdin)
    /\ pos' = pos + 1
    /\ line' = stdin[pos + 1]
    /\ text' = Strip(stdin[pos + 1])
    /\ pc' = "check"
    /\ calls' = Append(calls, [ln |-> pos + 1, op |-> "read"])
    /\ UNCHANGED <<stdin, stdout_isatty, MAX_TOKENS, ids, word_count, max_len,
                   out, stdout_buf, stdout_seen, failure, requests>>

EndOfInputAfterFirst ==
    /\ pc = "read"
    /\ pos = Len(stdin) \/ pos = 1
    /\ pc' = "done"
    /\ FlushAtExit
    /\ UNCHANGED <<stdin, stdout_isatty, MAX_TOKENS, pos, line, text, ids,
                   word_count, max_len, out, failure, calls, requests>>

\* the iterator is exhausted: the script ends
EndOfInput ==
    /\ pc = "read"
    /\ pos = Len(stdin)
    /\ pc' = "done"
    /\ FlushAtExit
    /\ UNCHANGED <<stdin, stdout_isatty, MAX_TOKENS, pos, line, text, ids,
                   word_count, max_len, out, failure, calls, requests>>

WriteBlankDropped ==
    /\ pc = "check"
    /\ text = <<>>
    /\ pc' = "read"
    /\ UNCHANGED <<stdin, stdout_isatty, MAX_TOKENS, pos, line, text, ids,
                   word_count, max_len, out, stdout_buf, stdout_seen,
                   failure, calls, requests>>

\* if not text: print(); continue
WriteBlank ==
    /\ pc = "check"
    /\ text = <<>>
    /\ WriteLine(<<>>, FALSE)
    /\ calls' = Append(calls, Call("write"))
    /\ pc' = "read"
    /\ UNCHANGED <<stdin, stdout_isatty, MAX_TOKENS, pos, line, text, ids,
                   word_count, max_len, out, failure, requests>>

\* ids = tokenizer.encode(text, truncation=False)
TokenizeReturns ==
    /\ pc = "check"
    /\ text # <<>>
    /\ ids' = Encode(text)
    /\ calls' = Append(calls, Call("encode"))
    /\ pc' = "truncate"
    /\ UNCHANGED <<stdin, stdout_isatty, MAX_TOKENS, pos, line, text,
                   word_count, max_len, out, stdout_buf, stdout_seen,
                   failure, requests>>

TokenizeRaisesSwallowed ==
    /\ pc = "check"
    /\ text # <<>>
    /\ calls' = Append(calls, Call("encode"))
    /\ RaiseSwallowed("encode")
    /\ UNCHANGED <<stdin, stdout_isatty, MAX_TOKENS, pos, line, text, ids,
                   word_count, max_len, out, requests>>

TokenizeRaises ==
    /\ pc = "check"
    /\ text # <<>>
    /\ calls' = Append(calls, Call("encode"))
    /\ Raise("encode")
    /\ UNCHANGED <<stdin, stdout_isatty, MAX_TOKENS, pos, line, text, ids,
                   word_count, max_len, out, requests>>

\* if len(ids) > MAX_TOKENS: (not taken)
NoTruncate ==
    /\ pc = "truncate"
    /\ ~NeedsTruncation(ids, MAX_TOKENS)
    /\ pc' = "generate"
    /\ UNCHANGED <<stdin, stdout_isatty, MAX_TOKENS, pos, line, text, ids,
                   word_count, max_len, out, stdout_buf, stdout_seen,
                   failure, calls, requests>>

TruncateAlwaysDecodes ==
    /\ pc = "truncate"
    /\ ids' = Prefix(ids, MAX_TOKENS)
    /\ text' = Decode(Prefix(ids, MAX_TOKENS))
    /\ calls' = Append(calls, Call("decode"))
    /\ pc' = "generate"
    /\ UNCHANGED <<stdin, stdout_isatty, MAX_TOKENS, pos, line,
                   word_count, max_len, out, stdout_buf, stdout_seen,
                   failure, requests>>

\* ids = ids[:MAX_TOKENS]; text = tokenizer.decode(ids, ...)
TruncateReturns ==
    /\ pc = "truncate"
    /\ NeedsTruncation(ids, MAX_TOKENS)
    /\ ids' = Prefix(ids, MAX_TOKENS)
    /\ text' = Decode(Prefix(ids, MAX_TOKENS))
    /\ calls' = Append(calls, Call("decode"))
    /\ pc' = "generate"
    /\ UNCHANGED <<stdin, stdout_isatty, MAX_TOKENS, pos, line,
                   word_count, max_len, out, stdout_buf, stdout_seen,
                   failure, requests>>

TruncateRaises ==
    /\ pc = "truncate"
    /\ NeedsTruncation(ids, MAX_TOKENS)
    /\ ids' = Prefix(ids, MAX_TOKENS)
    /\ calls' = Append(calls, Call("decode"))
    /\ Raise("decode")
    /\ UNCHANGED <<stdin, stdout_isatty, MAX_TOKENS, pos, line, text,
                   word_count, max_len, out, requests>>

\* the keyword arguments of the pipeline call
Request(t, ml) ==
    [ln |-> pos, text |-> t, max_length |-> ml, min_length |-> 1,
     do_sample |-> FALSE, truncation |-> TRUE]

\* word_count, max_len and the call's bookkeeping, shared by both outcomes
Budget ==
    /\ pc = "generate"
    /\ word_count' = WordCount(text)
    /\ max_len' = MaxLen(WordCount(text))
    /\ requests' = Append(requests, Request(text, MaxLen(WordCount(text))))
    /\ calls' = Append(calls, Call("generate"))

\* out = model(text, max_length=max_len, min_length=1, ...)
GenerateReturns ==
    /\ Budget
    /\ \E n \in 0..MaxCandidates : out' = Candidates(text, n)
    /\ pc' = "print"
    /\ UNCHANGED <<stdin, stdout_isatty, MAX_TOKENS, pos, line, text, ids,
                   stdout_buf, stdout_seen, failure>>

GenerateRaises ==
    /\ Budget
    /\ Raise("generate")
    /\ UNCHANGED <<stdin, stdout_isatty, MAX_TOKENS, pos, line, text, ids, out>>

\* print(out[0]["generated_text"], flush=True)
WriteOut ==
    /\ pc = "print"
    /\ out # <<>>
    /\ WriteLine(out[1].generated_text, TRUE)
    /\ calls' = Append(calls, Call("write"))
    /\ pc' = "read"
    /\ UNCHANGED <<stdin, stdout_isatty, MAX_TOKENS, pos, line, text, ids,
                   word_count, max_len, out, failure, requests>>

\* out[0] on an empty list: IndexError
WriteOutRaises ==
    /\ pc = "print"
    /\ out = <<>>
    /\ Raise("index")
    /\ UNCHANGED <<stdin, stdout_isatty, MAX_TOKENS, pos, line, text, ids,
                   word_count, max_len, out, calls, requests>>

Next ==
    \/ NextLine
    \/ EndOfInput
    \/ WriteBlank
    \/ TokenizeReturns
    \/ TokenizeRaises
    \/ NoTruncate
    \/ TruncateReturns
    \/ TruncateRaises
    \/ GenerateReturns
    \/ GenerateRaises
    \/ WriteOut
    \/ WriteOutRaises

Spec == Init /\ [][Next]_vars

\* every step of the script is a blocking call that returns or raises
FairSpec == Spec /\ WF_vars(Next)

\* ------------------------------------------------------------ observations
\* everything the script has handed to sys.stdout, flushed or not
written == stdout_seen \o stdout_buf

Stripped(i) == Strip(stdin[i])

TokenCount(i) == Len(Encode(Stripped(i)))

RequestsOf(i) == SelectSeq(requests, LAMBDA r : r.ln = i)

CallsOf(i) == SelectSeq(calls, LAMBDA c : c.ln = i)

OpsOf(i) == [k \in 1..Len(CallsOf(i)) |-> CallsOf(i)[k].op]

CountOp(i, op) == Len(SelectSeq(calls, LAMBDA c : c.ln = i /\ c.op = op))

IsPrefix(s, t) == Len(s) <= Len(t) /\ SubSeq(t, 1, Len(s)) = s

\* C1: the output has one line per input line read so far, in input order:
\* line i of the output is empty when input line i is blank and is the first
\* candidate generated for line i otherwise; a normal end has exactly N lines.
C1_OrderPreserved ==
    /\ Len(written) <= pos
    /\ Len(written) >= pos - 1
    /\ \A i \in 1..Len(written) :
        IF Stripped(i) = <<>>
        THEN written[i] = <<>>
        ELSE /\ Len(RequestsOf(i)) = 1
             /\ written[i] = Candidate(RequestsOf(i)[1].text, 1).generated_text
    /\ pc = "done" => Len(written) = Len(stdin)

C1_Witness ==
    /\ pc = "done"
    /\ Len(stdin) = 2
    /\ Stripped(1) # <<>>
    /\ Stripped(2) = <<>>
    /\ Len(written) = 2
    /\ written[1] # written[2]

\* C2: a line that is empty after stripping (whitespace-only lines included)
\* yields the empty output line, and no encode, decode or generator call is
\* made for it.
C2_BlankLineIdentity ==
    \A i \in 1..pos :
        Stripped(i) = <<>> =>
            /\ CountOp(i, "encode") = 0
            /\ CountOp(i, "decode") = 0
            /\ CountOp(i, "generate") = 0
            /\ Len(RequestsOf(i)) = 0
            /\ (i < pos \/ pc # "check") => (Len(written) >= i /\ written[i] = <<>>)

C2_Witness ==
    /\ pos = 2
    /\ stdin[2] # <<>>
    /\ Stripped(2) = <<>>
    /\ Stripped(1) # <<>>
    /\ Len(written) = 2
    /\ written[2] = <<>>

\* C3: when the untruncated token count of a line exceeds MAX_TOKENS, the
\* text handed to the generator encodes to at most MAX_TOKENS tokens.
C3_TruncatedTextFits ==
    \A k \in 1..Len(requests) :
        TokenCount(requests[k].ln) > MAX_TOKENS =>
            Len(Encode(requests[k].text)) <= MAX_TOKENS

\* C4: when the untruncated token count of a non-empty line is at most
\* MAX_TOKENS (equality included), the generator receives the stripped line
\* unchanged and decode is not called for the line.
C4_FittingLineVerbatim ==
    /\ \A i \in 1..pos :
        (Stripped(i) # <<>> /\ TokenCount(i) <= MAX_TOKENS) =>
            CountOp(i, "decode") = 0
    /\ \A k \in 1..Len(requests) :
        TokenCount(requests[k].ln) <= MAX_TOKENS =>
            requests[k].text = Stripped(requests[k].ln)

C4_Witness ==
    /\ Len(requests) = 1
    /\ TokenCount(requests[1].ln) = MAX_TOKENS
    /\ requests[1].text = Stripped(requests[1].ln)
    /\ stdin[requests[1].ln] # Stripped(requests[1].ln)

\* the text the generator is given for line i: the decoded prefix when the
\* line was cut, the stripped line otherwise
EffectiveText(i) ==
    IF TokenCount(i) > MAX_TOKENS
    THEN Decode(SubSeq(Encode(Stripped(i)), 1, MAX_TOKENS))
    ELSE Stripped(i)

C6_FlushedAfterEachWrite ==
    pc \in {"read", "check", "truncate", "generate", "print"} =>
        stdout_buf = <<>>

\* C7: a failure on line k (encode, decode or the generator raises, or the
\* candidate list is empty) ends the run there: lines 1..k-1 are the whole
\* output, the failing call was made once, nothing later was read, tokenized
\* or generated, and nothing more can happen.
C7_FailureAborts ==
    failure # "none" =>
        /\ pc = "aborted"
        /\ ~ENABLED Next
        /\ Len(written) = pos - 1
        /\ stdout_seen = written
        /\ \A c \in 1..Len(calls) : calls[c].ln <= pos
        /\ CountOp(pos, "write") = 0
        /\ CountOp(pos, "encode") = 1
        /\ CountOp(pos, "decode") <= 1
        /\ CountOp(pos, "generate") <= 1
        /\ failure = "encode" => CountOp(pos, "generate") = 0
        /\ failure = "decode" => CountOp(pos, "decode") = 1 /\ CountOp(pos, "generate") = 0
        /\ failure \in {"generate", "index"} => CountOp(pos, "generate") = 1

C7_Witness ==
    /\ pc = "aborted"
    /\ failure = "index"
    /\ pos = 2
    /\ Len(stdin) = 2
    /\ Len(written) = 1

StepsOf(i) ==
    IF Stripped(i) = <<>> THEN <<"read", "write">>
    ELSE IF TokenCount(i) > MAX_TOKENS
    THEN <<"read", "encode", "decode", "generate", "write">>
    ELSE <<"read", "encode", "generate", "write">>

\* C9: each line runs read, encode (once), decode (only when the token count
\* exceeds MAX_TOKENS), one generator call (no sampling, truncation guard
\* on), write, in that order, and a line is started only after the previous
\* one is complete.
C9_SequentialSteps ==
    /\ \A c \in 1..Len(calls) - 1 : calls[c].ln <= calls[c + 1].ln
    /\ \A i \in 1..pos : IsPrefix(OpsOf(i), StepsOf(i))
    /\ \A i \in 1..pos - 1 : OpsOf(i) = StepsOf(i)
    /\ \A k \in 1..Len(requests) :
        /\ requests[k].do_sample = FALSE
        /\ requests[k].truncation = TRUE
        /\ Len(RequestsOf(requests[k].ln)) = 1

C9_Witness ==
    /\ pos = 2
    /\ OpsOf(1) = <<"read", "encode", "decode", "generate", "write">>
    /\ OpsOf(2) = <<"read", "encode", "generate">>

\* C10: two lines with the same content get the same generator request
\* (text, min_length, max_length) whatever precedes them, and MAX_TOKENS
\* never changes.
C10_NoCrossLineState ==
    /\ [](\A j, k \in 1..Len(requests) :
            stdin[requests[j].ln] = stdin[requests[k].ln] =>
                /\ requests[j].text = requests[k].text
                /\ requests[j].min_length = requests[k].min_length
                /\ requests[j].max_length = requests[k].max_length)
    /\ [][MAX_TOKENS' = MAX_TOKENS]_vars

C10_Witness ==
    /\ Len(requests) = 2
    /\ stdin[1] = stdin[2]
    /\ TokenCount(1) > MAX_TOKENS
    /\ requests[1].text = requests[2].text
    /\ requests[1].text # Stripped(1)

====
